---- MODULE Spec2Model ----
(***************************************************************************)
(* The request pipeline of design-pattern/strategy.ts: MiddlewarePipeline, *)
(* its five middlewares and HTTPServer.                                     *)
(*                                                                         *)
(* JavaScript runs one task at a time; a task gives up control only at an  *)
(* await.  A task whose control state is "enter" or "call" is in the       *)
(* middle of synchronous code and no other task moves; in "verify", "ret"  *)
(* and "exec_done" it is suspended at an await and any task may move.      *)
(***************************************************************************)
EXTENDS Integers, Sequences, FiniteSets, TLC

VARIABLES
    now,          \* Date.now()
    ticks,        \* how often the clock has advanced
    requests,     \* RateLimitingMiddleware.requests : clientId -> timestamps
    middlewares,  \* MiddlewarePipeline.middlewares
    calls,        \* number of handleRequest / execute calls made so far
    ctl,          \* per task: where its chain stands
    request,      \* per task: the Request object it processes
    handler,      \* per task: what the terminal handler yields when called
    index,        \* per task: the variable index of MiddlewarePipeline.execute
    stack,        \* per task: the middleware calls that have not returned
    val,          \* per task: the value the pending promise settles with
    response,     \* per task: what handleRequest returned
    obs,          \* per task: what a spy sees of the current execution
    admitted      \* clientId -> timestamps of every request ever recorded

vars == <<now, ticks, requests, middlewares, calls, ctl, request, handler,
          index, stack, val, response, obs, admitted>>

---------------------------------------------------------------------------
(* Bounds of the model *)

NumTasks == 2
MaxCalls == 2
MaxWindowCalls == 12
MaxTicks == 2
MaxHandlers == 3
MaxExecutions == 1

Tasks == 1 .. NumTasks

---------------------------------------------------------------------------
(* Strings that the code takes apart are sequences of characters *)

Bearer == <<"B", "e", "a", "r", "e", "r", " ">>
ValidToken == <<"v", "a", "l", "i", "d", "-", "t", "o", "k", "e", "n">>
AdminToken == <<"a", "d", "m", "i", "n", "-", "t", "o", "k", "e", "n">>
StaleToken == <<"s", "t", "a", "l", "e">>
Basic == <<"B", "a", "s", "i", "c", " ">>

startsWith(s, prefix) ==
    /\ Len(s) >= Len(prefix)
    /\ SubSeq(s, 1, Len(prefix)) = prefix

substring(s, start) == SubSeq(s, start + 1, Len(s))

(* JavaScript values of type any *)
Undefined == [kind |-> "undefined"]
Null == [kind |-> "null"]
Str(s) == [kind |-> "string", v |-> s]
Num(n) == [kind |-> "number", v |-> n]
Sym == [kind |-> "symbol"]

(* Response and the two ways a promise settles *)
NoHeaders == [h \in {} |-> ""]
Response(status, body) ==
    [kind |-> "response", status |-> status, body |-> body, headers |-> NoHeaders]
ResponseWith(status, body, headers) ==
    [kind |-> "response", status |-> status, body |-> body, headers |-> headers]
Failure(message, n) == [kind |-> "failure", message |-> message, n |-> n]
Nothing == [kind |-> "nothing"]

IsResponse(v) == v.kind = "response"
IsFailure(v) == v.kind = "failure"

(* Request: headers is a map from header names to strings, user is absent
   (<<>>) or present (<<identity>>) *)
Request(method, path, headers, body) ==
    [method |-> method, path |-> path, headers |-> headers, body |-> body,
     user |-> <<>>]

header(req, name) ==
    IF name \in DOMAIN req.headers THEN <<req.headers[name]>> ELSE <<>>

RouteKey(req) == req.method \o ":" \o req.path

---------------------------------------------------------------------------
(* AuthenticationMiddleware *)

\* the check without its startsWith half
MissingOnly(authHeader) ==
    \/ authHeader = <<>>
    \/ authHeader[1] = <<>>

\* line 342: !authHeader || !authHeader.startsWith('Bearer ')
MissingOrMalformed(authHeader) ==
    \/ authHeader = <<>>
    \/ authHeader[1] = <<>>
    \/ ~startsWith(authHeader[1], Bearer)

\* a verification that rejects nothing
verifyAnyToken(token) ==
    [ok |-> TRUE,
     user |-> [id |-> "user123", email |-> "user@example.com", role |-> "user"]]

verifyToken(token) ==
    IF token = ValidToken
    THEN [ok |-> TRUE,
          user |-> [id |-> "user123", email |-> "user@example.com", role |-> "user"]]
    ELSE IF token = AdminToken
    THEN [ok |-> TRUE,
          user |-> [id |-> "admin123", email |-> "admin@example.com", role |-> "admin"]]
    ELSE [ok |-> FALSE, message |-> "Invalid token"]

\* the identity left off the request
AttachNothing(req, user) == req

\* request.user = user, line 356
Attach(req, user) == [req EXCEPT !.user = <<user>>]

---------------------------------------------------------------------------
(* RateLimitingMiddleware *)

windowMs == 60 * 1000
maxRequests == 10

\* request.user?.id || request.headers['x-forwarded-for'] || 'unknown'
getClientId(req) ==
    IF req.user # <<>> /\ req.user[1].id # ""
    THEN req.user[1].id
    ELSE IF header(req, "x-forwarded-for") \notin {<<>>, <<"">>}
    THEN req.headers["x-forwarded-for"]
    ELSE "unknown"

\* this.requests.get(clientId) || []
stored(table, clientId) ==
    IF clientId \in DOMAIN table THEN table[clientId] ELSE <<>>

\* the window with its far end included
InWindowInclusive(time, at) == at - time <= windowMs

InWindow(time, at) == at - time < windowMs

\* a filter that drops nothing
allRequests(table, clientId, at) == stored(table, clientId)

\* requests.filter(time => now - time < this.windowMs)
validRequests(table, clientId, at) ==
    SelectSeq(stored(table, clientId), LAMBDA time : InWindow(time, at))

\* the threshold off by one
AboveLimit(n) == n > maxRequests

\* the threshold reached one request early
OneBelowLimit(n) == n + 1 >= maxRequests

\* validRequests.length >= this.maxRequests, line 418
AtLimit(n) == n >= maxRequests

\* a prune that also records the request it looks at
prunedAndRecorded(table, clientId, at) ==
    (clientId :> Append(validRequests(table, clientId, at), at)) @@ table

\* a prune that forgets every other client
prunedToOneClient(table, clientId, at) ==
    clientId :> validRequests(table, clientId, at)

\* isRateLimited: the table after the prune, and the verdict
pruned(table, clientId, at) ==
    (clientId :> validRequests(table, clientId, at)) @@ table

isRateLimited(table, clientId, at) ==
    AtLimit(Len(validRequests(table, clientId, at)))

\* an admission that leaves no trace
recordNothing(table, clientId, at) == table

recordRequest(table, clientId, at) ==
    (clientId :> Append(stored(table, clientId), at)) @@ table

\* the window in milliseconds where the header wants seconds
TooManyRequestsMillis ==
    ResponseWith(429, [error |-> "Rate limit exceeded"], ("Retry-After" :> "60000"))

\* the rejection, lines 392-396
TooManyRequests ==
    ResponseWith(429, [error |-> "Rate limit exceeded"], ("Retry-After" :> "60"))

---------------------------------------------------------------------------
(* ValidationMiddleware *)

\* a rule that is not declared is 0 (falsy, as an undefined one is)
Rules(required, type, minLength, min) ==
    [required |-> required, type |-> type, minLength |-> minLength, min |-> min]

schemas ==
    ("POST:/users" :>
        <<[field |-> "email", rules |-> Rules(TRUE, "email", 0, 0)],
          [field |-> "name", rules |-> Rules(TRUE, "string", 2, 0)],
          [field |-> "age", rules |-> Rules(FALSE, "number", 0, 18)]>>)
    @@
    ("PUT:/users/:id" :>
        <<[field |-> "name", rules |-> Rules(FALSE, "string", 2, 0)],
          [field |-> "age", rules |-> Rules(FALSE, "number", 0, 18)]>>)

Whitespace == {" ", "\t", "\n", "\r"}
Digits == <<"0", "1", "2", "3", "4", "5", "6", "7", "8", "9">>

\* /^[^\s@]+@[^\s@]+\.[^\s@]+$/ on a string
MatchesEmail(s) ==
    \E i \in 2 .. Len(s) :
        /\ s[i] = "@"
        /\ \A k \in (1 .. Len(s)) \ {i} : s[k] \notin Whitespace \cup {"@"}
        /\ \E j \in (i + 2) .. (Len(s) - 1) : s[j] = "."

\* RegExp.test converts its argument to a string: a symbol makes it throw
isValidEmail(value) ==
    IF value.kind = "string" THEN MatchesEmail(value.v) ELSE FALSE

\* a check that takes every value for a missing one
NeverPresent(value) == FALSE

\* value !== undefined && value !== null
IsPresent(value) == value.kind \notin {"undefined", "null"}

RECURSIVE DigitsValue(_)
DigitsValue(s) ==
    IF s = <<>> THEN 0
    ELSE 10 * DigitsValue(SubSeq(s, 1, Len(s) - 1))
         + (CHOOSE d \in 0 .. 9 : Digits[d + 1] = s[Len(s)])

IsNumeric(s) == \A k \in 1 .. Len(s) : \E d \in 1 .. 10 : Digits[d] = s[k]

\* value.length < rules.minLength: only a string has a length here
ShorterThan(value, minLength) ==
    value.kind = "string" /\ Len(value.v) < minLength

\* value < rules.min: a numeric string is converted, any other string is NaN
LessThan(value, min) ==
    \/ value.kind = "number" /\ value.v < min
    \/ value.kind = "string" /\ IsNumeric(value.v) /\ DigitsValue(value.v) < min

\* the conversions of validateField that throw a TypeError on a symbol
FieldThrows(value, rules) ==
    /\ value.kind = "symbol"
    /\ rules.type = "email" \/ rules.min # 0

validateField(field, value, rules) ==
    IF rules.required /\ ~IsPresent(value)
    THEN <<field \o " is required">>
    ELSE IF ~IsPresent(value)
    THEN <<>>
    ELSE (IF rules.type = "email" /\ ~isValidEmail(value)
          THEN <<field \o " must be a valid email">> ELSE <<>>)
         \o
         (IF rules.type = "string" /\ value.kind # "string"
          THEN <<field \o " must be a string">> ELSE <<>>)
         \o
         (IF rules.type = "number" /\ value.kind # "number"
          THEN <<field \o " must be a number">> ELSE <<>>)
         \o
         (IF rules.minLength # 0 /\ ShorterThan(value, rules.minLength)
          THEN <<field \o " must be at least " \o ToString(rules.minLength)
                       \o " characters">>
          ELSE <<>>)
         \o
         (IF rules.min # 0 /\ LessThan(value, rules.min)
          THEN <<field \o " must be at least " \o ToString(rules.min)>>
          ELSE <<>>)

\* request.body?.[field]
bodyField(req, field) ==
    IF field \in DOMAIN req.body THEN req.body[field] ELSE Undefined

RECURSIVE validateFields(_, _)
validateFields(req, fields) ==
    IF fields = <<>> THEN <<>>
    ELSE validateField(Head(fields).field, bodyField(req, Head(fields).field),
                       Head(fields).rules)
         \o validateFields(req, Tail(fields))

validateRequest(req, schema) == validateFields(req, schema)

\* validateRequest ends by a TypeError when a present field cannot be converted
validateThrows(req, schema) ==
    \E k \in 1 .. Len(schema) :
        /\ IsPresent(bodyField(req, schema[k].field))
        /\ FieldThrows(bodyField(req, schema[k].field), schema[k].rules)

---------------------------------------------------------------------------
(* AuthorizationMiddleware *)

\* a registry that lets only administrators create users
permissionsAdminOnly ==
    ("DELETE:/users/:id" :> {"admin"})
    @@ ("GET:/admin/users" :> {"admin"})
    @@ ("POST:/users" :> {"admin"})
    @@ ("GET:/users/:id" :> {"user", "admin"})

\* the constructor, lines 529-535
permissions ==
    ("DELETE:/users/:id" :> {"admin"})
    @@ ("GET:/admin/users" :> {"admin"})
    @@ ("POST:/users" :> {"user", "admin"})
    @@ ("GET:/users/:id" :> {"user", "admin"})

\* a check that lets every role through
AnyRole(roles, role) == TRUE

\* requiredRoles.includes(request.user.role), line 554
includes(roles, role) == role \in roles

---------------------------------------------------------------------------
(* HTTPServer *)

\* the Validator registered before the Authenticator
setupValidationFirst ==
    <<"Logging", "RateLimiting", "Validation", "Authentication", "Authorization">>

\* the Authorizer registered ahead of the Authenticator
setupAuthorizationFirst ==
    <<"Logging", "RateLimiting", "Authorization", "Authentication", "Validation">>

\* setupMiddleware, lines 603-610
setupMiddleware ==
    <<"Logging", "RateLimiting", "Authentication", "Validation", "Authorization">>

\* a table that has a handler for every path the callers ask for
routesForAll ==
    ("GET:/users/123" :>
        Response(200, [id |-> "123", name |-> "John Doe", email |-> "john@example.com"]))
    @@ ("POST:/users" :>
        Response(201, [id |-> "new-user", message |-> "User created successfully"]))
    @@ ("DELETE:/users/123" :>
        Response(200, [message |-> "User deleted successfully"]))
    @@ ("GET:/missing" :> Response(200, [message |-> "Found"]))

\* setupRoutes, lines 612-627
routes ==
    ("GET:/users/123" :>
        Response(200, [id |-> "123", name |-> "John Doe", email |-> "john@example.com"]))
    @@ ("POST:/users" :>
        Response(201, [id |-> "new-user", message |-> "User created successfully"]))
    @@ ("DELETE:/users/123" :>
        Response(200, [message |-> "User deleted successfully"]))

NotFound == Response(404, [error |-> "Route not found"])
InternalServerError == Response(500, [error |-> "Internal server error"])

---------------------------------------------------------------------------
(* The state of one execution *)

\* what a spy sees of one execution; every field starts empty
NoObs ==
    [submitted |-> <<>>,   \* the request as it was handed in
     trace |-> <<>>,       \* positions of the middlewares invoked, in order
     delegated |-> <<>>,   \* positions of the middlewares that called next()
     short |-> <<>>,       \* middlewares that answered without calling next()
     terminal |-> 0,       \* invocations of the terminal handler
     verify |-> 0,         \* calls of verifyToken
     raised |-> <<>>,      \* failures raised, where they were raised
     caught |-> <<>>,      \* failures a middleware caught
     repeated |-> <<>>,    \* what a second call of a continuation did
     limiter |-> <<>>,     \* the rate limiter's verdict
     log |-> <<>>]         \* what LoggingMiddleware printed

NoRequest == Request("", "", NoHeaders, NoHeaders)

Frame(mw) == [mw |-> mw, invoked |-> 0]

Top(t) == stack[t][Len(stack[t])]
Kind(t) == middlewares[Top(t).mw]

\* a response that skips the handler that waits for it
PopTwo(s) == SubSeq(s, 1, Len(s) - 2)

\* the promise of the running middleware settles: its frame is gone
Pop(s) == SubSeq(s, 1, Len(s) - 1)

\* a loop that runs a continuation only while no request is pending
NoRequestPending == \A u \in Tasks : ctl[u] \in {"idle", "done"}

\* no task is in the middle of synchronous code
NoSync == \A u \in Tasks : ctl[u] \notin {"enter", "call"}

\* the body of middleware `kind` starts to run
Entering(t, kind) == ctl[t] = "enter" /\ Kind(t) = kind

\* middleware `kind` resumes after its await next()
Resuming(t, kind) ==
    /\ ctl[t] = "ret"
    /\ stack[t] # <<>>
    /\ Kind(t) = kind
    /\ NoSync

\* the running middleware returns v (a response) or throws v (a failure):
\* the promise of its execute settles and its caller resumes later
Settle(t, v) ==
    /\ stack' = [stack EXCEPT ![t] = Pop(@)]
    /\ val' = [val EXCEPT ![t] = v]
    /\ ctl' = [ctl EXCEPT ![t] = "ret"]

\* the running middleware calls next()
Invoke(t) ==
    /\ stack' = [stack EXCEPT ![t][Len(stack[t])].invoked = @ + 1]
    /\ val' = [val EXCEPT ![t] = Nothing]
    /\ ctl' = [ctl EXCEPT ![t] = "call"]

Delegates(t) == [obs EXCEPT ![t].delegated = Append(@, Top(t).mw)]

ShortCircuits(t, v) ==
    [obs EXCEPT ![t].short = Append(@, [mw |-> Top(t).mw, response |-> v])]

Raises(o, v, where) == Append(o, [failure |-> v, where |-> where])

---------------------------------------------------------------------------
(* MiddlewarePipeline *)

\* use(middleware), lines 571-574; the configuration is fixed before the
\* first execution
Use(kind) ==
    /\ calls = 0
    /\ Len(middlewares) < MaxHandlers
    /\ middlewares' = Append(middlewares, kind)
    /\ UNCHANGED <<now, ticks, requests, calls, ctl, request, handler, index,
                   stack, val, response, obs, admitted>>

\* the index left where it was
NoAdvance(i) == i

\* index++, line 585
Advance(i) == i + 1

\* one position kept in the pipeline object for all its executions
SharedSlot(t) == 1

\* let index = 0, line 577: a variable of the call of execute, one per
\* execution
Slot(t) == t

\* execute(request, handler) up to its call of next(), lines 576-589
execute(t, req, h) ==
    /\ request' = [request EXCEPT ![t] = req]
    /\ handler' = [handler EXCEPT ![t] = h]
    /\ index' = [index EXCEPT ![Slot(t)] = 0]
    /\ stack' = [stack EXCEPT ![t] = <<>>]
    /\ val' = [val EXCEPT ![t] = Nothing]
    /\ ctl' = [ctl EXCEPT ![t] = "call"]

\* a caller other than HTTPServer runs the pipeline
Execute(t, req, h) ==
    /\ ctl[t] \in {"idle", "exec_done"}
    /\ NoSync
    /\ calls < MaxExecutions
    /\ calls' = calls + 1
    /\ execute(t, req, h)
    /\ obs' = [obs EXCEPT ![t] = [NoObs EXCEPT !.submitted = <<req>>]]
    /\ response' = [response EXCEPT ![t] = Nothing]
    /\ UNCHANGED <<now, ticks, requests, middlewares, admitted>>

\* the closure next, lines 579-587
PipelineNext(t) ==
    /\ ctl[t] = "call"
    /\ LET again == stack[t] # <<>> /\ Top(t).invoked > 1
       IN
       IF index[Slot(t)] >= Len(middlewares)
       THEN LET result ==
                    IF IsFailure(handler[t])
                    THEN Failure(handler[t].message, Len(obs[t].raised) + 1)
                    ELSE handler[t]
            IN
            /\ val' = [val EXCEPT ![t] = result]
            /\ ctl' = [ctl EXCEPT ![t] = "ret"]
            /\ obs' = [obs EXCEPT
                         ![t].terminal = @ + 1,
                         ![t].raised = IF IsFailure(result)
                                       THEN Raises(@, result, 0) ELSE @,
                         ![t].repeated = IF again THEN Append(@, "terminal") ELSE @]
            /\ UNCHANGED <<index, stack>>
       ELSE /\ index' = [index EXCEPT ![Slot(t)] = Advance(@)]
            /\ stack' = [stack EXCEPT ![t] = Append(@, Frame(index[Slot(t)] + 1))]
            /\ ctl' = [ctl EXCEPT ![t] = "enter"]
            /\ obs' = [obs EXCEPT
                         ![t].trace = Append(@, index[Slot(t)] + 1),
                         ![t].repeated = IF again THEN Append(@, "handler") ELSE @]
            /\ UNCHANGED val
    /\ UNCHANGED <<now, ticks, requests, middlewares, calls, request, handler,
                   response, admitted>>

\* a failure turned into a response on the way out
Swallowed(v) == IF IsFailure(v) THEN InternalServerError ELSE v

\* what the caller of execute receives, line 589
Outcome(v) == v

\* return await next(), line 589
ExecuteReturn(t) ==
    /\ ctl[t] = "ret"
    /\ stack[t] = <<>>
    /\ NoSync
    /\ val' = [val EXCEPT ![t] = Outcome(@)]
    /\ ctl' = [ctl EXCEPT ![t] = "exec_done"]
    /\ UNCHANGED <<now, ticks, requests, middlewares, calls, request, handler,
                   index, stack, response, obs, admitted>>

---------------------------------------------------------------------------
(* LoggingMiddleware.execute, lines 317-333 *)

LoggingExecute(t) ==
    /\ Entering(t, "Logging")
    /\ Invoke(t)
    /\ obs' = [Delegates(t) EXCEPT ![t].log = Append(@, [event |-> "Started"])]
    /\ UNCHANGED <<now, ticks, requests, middlewares, calls, request, handler,
                   index, response, admitted>>

\* a Logger that answers a failure itself
LoggedAndAnswered(v) ==
    IF IsFailure(v) THEN Response(500, [error |-> v.message]) ELSE v

\* return response (line 327) or throw error (line 331)
LoggingOutcome(v) == v

LoggingResume(t) ==
    /\ Resuming(t, "Logging")
    /\ Settle(t, LoggingOutcome(val[t]))
    /\ obs' = [obs EXCEPT ![t].log =
                  Append(@, IF IsResponse(val[t])
                            THEN [event |-> "Completed", status |-> val[t].status]
                            ELSE [event |-> "Error", message |-> val[t].message])]
    /\ UNCHANGED <<now, ticks, requests, middlewares, calls, request, handler,
                   index, response, admitted>>

---------------------------------------------------------------------------
(* RateLimitingMiddleware.execute, lines 385-403.  Nothing is awaited
   between getClientId, isRateLimited and recordRequest: one step.
   isRateLimited and recordRequest each read the clock, which may have
   advanced in between. *)

RateLimitingExecute(t) ==
    /\ Entering(t, "RateLimiting")
    /\ LET clientId == getClientId(request[t])
           recent == Len(SelectSeq(stored(admitted, clientId),
                                   LAMBDA time : now - time < windowMs))
           verdict(v) == <<[key |-> clientId, verdict |-> v,
                            full |-> recent >= maxRequests,
                            fresh |-> recent = 0]>>
       IN
       IF isRateLimited(requests, clientId, now)
       THEN /\ requests' = pruned(requests, clientId, now)
            /\ Settle(t, TooManyRequests)
            /\ obs' = [ShortCircuits(t, TooManyRequests) EXCEPT ![t].limiter =
                          verdict("rejected")]
            /\ UNCHANGED <<now, ticks, admitted>>
       ELSE \E d \in {0, 1} :
            /\ d = 0 \/ ticks < MaxTicks
            /\ now' = now + d
            /\ ticks' = ticks + d
            /\ requests' = recordRequest(pruned(requests, clientId, now),
                                         clientId, now + d)
            /\ admitted' = recordRequest(admitted, clientId, now + d)
            /\ Invoke(t)
            /\ obs' = [Delegates(t) EXCEPT ![t].limiter =
                          verdict("admitted")]
    /\ UNCHANGED <<middlewares, calls, request, handler, index, response>>

RateLimitingResume(t) ==
    /\ Resuming(t, "RateLimiting")
    /\ Settle(t, val[t])
    /\ UNCHANGED <<now, ticks, requests, middlewares, calls, request, handler,
                   index, response, obs, admitted>>

---------------------------------------------------------------------------
(* AuthenticationMiddleware.execute, lines 337-366 *)

Unauthorized(message) == Response(401, [error |-> message])

\* up to await this.verifyToken(token)
AuthenticationExecute(t) ==
    /\ Entering(t, "Authentication")
    /\ LET authHeader == header(request[t], "authorization")
       IN
       IF MissingOrMalformed(authHeader)
       THEN LET answer == Unauthorized("Missing or invalid authorization header")
            IN
            /\ Settle(t, answer)
            /\ obs' = ShortCircuits(t, answer)
       ELSE LET verified == verifyToken(substring(authHeader[1], 7))
                result ==
                    IF verified.ok
                    THEN [kind |-> "identity", user |-> verified.user]
                    ELSE Failure(verified.message, Len(obs[t].raised) + 1)
            IN
            /\ val' = [val EXCEPT ![t] = result]
            /\ ctl' = [ctl EXCEPT ![t] = "verify"]
            /\ obs' = [obs EXCEPT
                         ![t].verify = @ + 1,
                         ![t].raised = IF IsFailure(result)
                                       THEN Raises(@, result, Top(t).mw) ELSE @]
            /\ UNCHANGED stack
    /\ UNCHANGED <<now, ticks, requests, middlewares, calls, request, handler,
                   index, response, admitted>>

\* after await this.verifyToken(token): attach the identity and call next(),
\* or catch the failure
AuthenticationVerified(t) ==
    /\ ctl[t] = "verify"
    /\ NoSync
    /\ IF IsFailure(val[t])
       THEN LET answer == Unauthorized("Invalid token")
            IN
            /\ Settle(t, answer)
            /\ obs' = [ShortCircuits(t, answer) EXCEPT
                         ![t].caught = Append(@, val[t])]
            /\ UNCHANGED request
       ELSE /\ request' = [request EXCEPT ![t] = Attach(@, val[t].user)]
            /\ Invoke(t)
            /\ obs' = Delegates(t)
    /\ UNCHANGED <<now, ticks, requests, middlewares, calls, handler, index,
                   response, admitted>>

\* a handler that answers 401 whatever came back
AlwaysInvalidToken(v) == Response(401, [error |-> "Invalid token"])

\* what the handler makes of the outcome of await next(): next() is awaited
\* inside the try block, so its failure lands in the catch clause
AuthenticationOutcome(v) ==
    IF IsFailure(v) THEN Unauthorized("Invalid token") ELSE v

AuthenticationResume(t) ==
    /\ Resuming(t, "Authentication")
    /\ Settle(t, AuthenticationOutcome(val[t]))
    /\ obs' = [obs EXCEPT ![t].caught =
                  IF IsFailure(val[t]) /\ ~IsFailure(AuthenticationOutcome(val[t]))
                  THEN Append(@, val[t]) ELSE @]
    /\ UNCHANGED <<now, ticks, requests, middlewares, calls, request, handler,
                   index, response, admitted>>

---------------------------------------------------------------------------
(* ValidationMiddleware.execute, lines 449-472 *)

ValidationExecute(t) ==
    /\ Entering(t, "Validation")
    /\ LET schemaKey == RouteKey(request[t])
       IN
       IF schemaKey \notin DOMAIN schemas
       THEN /\ Invoke(t)
            /\ obs' = Delegates(t)
       ELSE IF validateThrows(request[t], schemas[schemaKey])
       THEN LET failure == Failure("TypeError", Len(obs[t].raised) + 1)
            IN
            /\ Settle(t, failure)
            /\ obs' = [obs EXCEPT ![t].raised = Raises(@, failure, Top(t).mw)]
       ELSE LET validationErrors == validateRequest(request[t], schemas[schemaKey])
                answer == Response(400, [error |-> "Validation failed",
                                         details |-> validationErrors])
            IN
            IF Len(validationErrors) > 0
            THEN /\ Settle(t, answer)
                 /\ obs' = ShortCircuits(t, answer)
            ELSE /\ Invoke(t)
                 /\ obs' = Delegates(t)
    /\ UNCHANGED <<now, ticks, requests, middlewares, calls, request, handler,
                   index, response, admitted>>

ValidationResume(t) ==
    /\ Resuming(t, "Validation")
    /\ Settle(t, val[t])
    /\ UNCHANGED <<now, ticks, requests, middlewares, calls, request, handler,
                   index, response, obs, admitted>>

---------------------------------------------------------------------------
(* AuthorizationMiddleware.execute, lines 537-564 *)

\* a registry that asks for an administrator where it has no entry
requiredRolesClosed(req) ==
    IF RouteKey(req) \in DOMAIN permissions
    THEN <<permissions[RouteKey(req)]>>
    ELSE <<{"admin"}>>

\* this.permissions.get(`${request.method}:${request.path}`)
requiredRoles(req) ==
    IF RouteKey(req) \in DOMAIN permissions
    THEN <<permissions[RouteKey(req)]>>
    ELSE <<>>

AuthorizationExecute(t) ==
    /\ Entering(t, "Authorization")
    /\ LET roles == requiredRoles(request[t])
       IN
       IF roles = <<>>
       THEN /\ Invoke(t)
            /\ obs' = Delegates(t)
       ELSE IF request[t].user = <<>>
       THEN /\ Settle(t, Unauthorized("Authentication required"))
            /\ obs' = ShortCircuits(t, Unauthorized("Authentication required"))
       ELSE IF ~includes(roles[1], request[t].user[1].role)
       THEN /\ Settle(t, Response(403, [error |-> "Insufficient permissions"]))
            /\ obs' = ShortCircuits(t, Response(403, [error |-> "Insufficient permissions"]))
       ELSE /\ Invoke(t)
            /\ obs' = Delegates(t)
    /\ UNCHANGED <<now, ticks, requests, middlewares, calls, request, handler,
                   index, response, admitted>>

AuthorizationResume(t) ==
    /\ Resuming(t, "Authorization")
    /\ Settle(t, val[t])
    /\ UNCHANGED <<now, ticks, requests, middlewares, calls, request, handler,
                   index, response, obs, admitted>>

---------------------------------------------------------------------------
(* Other implementations of the interface Middleware, lines 311-313, that a
   caller of use() may register:
     Pass   return await next()
     Short  return a response, next() is never called
     Throw  throw
     Twice  await next(); return await next()
     Catch  try { return await next() } catch { return a response }        *)

CustomKinds == {"Pass", "Short", "Throw", "Twice", "Catch"}

Teapot == Response(418, [error |-> "Short circuit"])
Recovered == Response(502, [error |-> "Recovered"])

CustomExecute(t) ==
    /\ ctl[t] = "enter"
    /\ Kind(t) \in CustomKinds
    /\ CASE Kind(t) = "Short" ->
              /\ Settle(t, Teapot)
              /\ obs' = ShortCircuits(t, Teapot)
         [] Kind(t) = "Throw" ->
              LET failure == Failure("Thrown", Len(obs[t].raised) + 1)
              IN
              /\ Settle(t, failure)
              /\ obs' = [obs EXCEPT ![t].raised = Raises(@, failure, Top(t).mw)]
         [] OTHER ->
              /\ Invoke(t)
              /\ obs' = Delegates(t)
    /\ UNCHANGED <<now, ticks, requests, middlewares, calls, request, handler,
                   index, response, admitted>>

CustomResume(t) ==
    /\ ctl[t] = "ret"
    /\ stack[t] # <<>>
    /\ Kind(t) \in CustomKinds
    /\ NoSync
    /\ CASE Kind(t) = "Twice" /\ Top(t).invoked = 1 /\ ~IsFailure(val[t]) ->
              /\ Invoke(t)
              /\ obs' = Delegates(t)
         [] Kind(t) = "Catch" /\ IsFailure(val[t]) ->
              /\ Settle(t, Recovered)
              /\ obs' = [obs EXCEPT ![t].caught = Append(@, val[t])]
         [] OTHER ->
              /\ Settle(t, val[t])
              /\ UNCHANGED obs
    /\ UNCHANGED <<now, ticks, requests, middlewares, calls, request, handler,
                   index, response, admitted>>

---------------------------------------------------------------------------
(* HTTPServer.handleRequest, lines 629-646 *)

HandleRequest(t, req, limit) ==
    /\ ctl[t] \in {"idle", "done"}
    /\ NoSync
    /\ calls < limit
    /\ calls' = calls + 1
    /\ obs' = [obs EXCEPT ![t] = [NoObs EXCEPT !.submitted = <<req>>]]
    /\ IF RouteKey(req) \notin DOMAIN routes
       THEN /\ request' = [request EXCEPT ![t] = req]
            /\ response' = [response EXCEPT ![t] = NotFound]
            /\ ctl' = [ctl EXCEPT ![t] = "done"]
            /\ UNCHANGED <<handler, index, stack, val>>
       ELSE /\ execute(t, req, routes[RouteKey(req)])
            /\ response' = [response EXCEPT ![t] = Nothing]
    /\ UNCHANGED <<now, ticks, requests, middlewares, admitted>>

\* a caller hands in again the request object of its last call, as the
\* handlers of that call left it
Resubmit(t, limit) ==
    /\ ctl[t] = "done"
    /\ HandleRequest(t, request[t], limit)

\* a catch clause that hands the caller the message of the failure
Surfaced(v) ==
    IF IsResponse(v) THEN v ELSE Response(500, [error |-> v.message])

\* try { return await this.pipeline.execute(...) } catch { 500 }
Answer(v) == IF IsResponse(v) THEN v ELSE InternalServerError

HandleRequestReturn(t) ==
    /\ ctl[t] = "exec_done"
    /\ NoSync
    /\ response' = [response EXCEPT ![t] = Answer(val[t])]
    /\ ctl' = [ctl EXCEPT ![t] = "done"]
    /\ UNCHANGED <<now, ticks, requests, middlewares, calls, request, handler,
                   index, stack, val, obs, admitted>>

---------------------------------------------------------------------------
(* The clock *)

Deltas == {1, windowMs - 1}

Tick(d) ==
    /\ NoSync
    /\ ticks < MaxTicks
    /\ now' = now + d
    /\ ticks' = ticks + 1
    /\ UNCHANGED <<requests, middlewares, calls, ctl, request, handler, index,
                   stack, val, response, obs, admitted>>

---------------------------------------------------------------------------
(* The requests the callers send *)

GoodBody ==
    [email |-> Str(<<"a", "@", "b", ".", "c", "o", "m">>),
     name |-> Str(<<"A", "l">>),
     age |-> Num(25)]
BadBody ==
    [email |-> Str(<<"a", "@", "b">>), name |-> Str(<<"A">>), age |-> Num(17)]
SymbolBody == [email |-> Sym, name |-> Str(<<"A", "l">>)]
EmptyBody == [f \in {} |-> Undefined]

Authorizations ==
    {<<>>,
     <<Basic \o ValidToken>>,
     <<Bearer \o ValidToken>>,
     <<Bearer \o AdminToken>>,
     <<Bearer \o StaleToken>>}

Forwarded == {<<>>, <<"10.0.0.1">>}

Headers(authorization, forwarded) ==
    (IF authorization = <<>> THEN NoHeaders
     ELSE ("authorization" :> authorization[1]))
    @@
    (IF forwarded = <<>> THEN NoHeaders
     ELSE ("x-forwarded-for" :> forwarded[1]))

Targets ==
    {<<"POST", "/users">>, <<"DELETE", "/users/123">>, <<"GET", "/users/123">>,
     <<"GET", "/missing">>}

Bodies == {GoodBody, BadBody, SymbolBody, EmptyBody}

\* only POST /users has a schema that reads the body
Requests ==
    {Request("POST", "/users", Headers(authorization, <<>>), body) :
        authorization \in Authorizations, body \in Bodies}
    \cup
    {Request(target[1], target[2], Headers(authorization, <<>>), EmptyBody) :
        target \in Targets, authorization \in Authorizations}

\* the requests of the callers that exhaust a window
WindowRequests ==
    {Request("GET", "/users/123", Headers(<<>>, <<"10.0.0.1">>), EmptyBody),
     Request("POST", "/users", Headers(<<Bearer \o ValidToken>>, <<"10.0.0.1">>),
             GoodBody)}

---------------------------------------------------------------------------
(* HTTPServer under concurrent callers *)

Init ==
    /\ now = 0
    /\ ticks = 0
    /\ requests = [k \in {} |-> <<>>]
    /\ middlewares = setupMiddleware
    /\ calls = 0
    /\ ctl = [t \in Tasks |-> "idle"]
    /\ request = [t \in Tasks |-> NoRequest]
    /\ handler = [t \in Tasks |-> Nothing]
    /\ index = [t \in Tasks |-> 0]
    /\ stack = [t \in Tasks |-> <<>>]
    /\ val = [t \in Tasks |-> Nothing]
    /\ response = [t \in Tasks |-> Nothing]
    /\ obs = [t \in Tasks |-> NoObs]
    /\ admitted = [k \in {} |-> <<>>]

Next ==
    \/ \E t \in Tasks, req \in Requests : HandleRequest(t, req, MaxCalls)
    \/ \E t \in Tasks : Resubmit(t, MaxCalls)
    \/ \E t \in Tasks : PipelineNext(t)
    \/ \E t \in Tasks : ExecuteReturn(t)
    \/ \E t \in Tasks : HandleRequestReturn(t)
    \/ \E t \in Tasks : LoggingExecute(t)
    \/ \E t \in Tasks : LoggingResume(t)
    \/ \E t \in Tasks : RateLimitingExecute(t)
    \/ \E t \in Tasks : RateLimitingResume(t)
    \/ \E t \in Tasks : AuthenticationExecute(t)
    \/ \E t \in Tasks : AuthenticationVerified(t)
    \/ \E t \in Tasks : AuthenticationResume(t)
    \/ \E t \in Tasks : ValidationExecute(t)
    \/ \E t \in Tasks : ValidationResume(t)
    \/ \E t \in Tasks : AuthorizationExecute(t)
    \/ \E t \in Tasks : AuthorizationResume(t)

Spec == Init /\ [][Next]_vars

NextLimit ==
    \/ \E t \in Tasks, req \in WindowRequests : HandleRequest(t, req, MaxWindowCalls)
    \/ \E d \in Deltas : Tick(d)
    \/ \E t \in Tasks : PipelineNext(t)
    \/ \E t \in Tasks : ExecuteReturn(t)
    \/ \E t \in Tasks : HandleRequestReturn(t)
    \/ \E t \in Tasks : LoggingExecute(t)
    \/ \E t \in Tasks : LoggingResume(t)
    \/ \E t \in Tasks : RateLimitingExecute(t)
    \/ \E t \in Tasks : RateLimitingResume(t)
    \/ \E t \in Tasks : AuthenticationExecute(t)
    \/ \E t \in Tasks : AuthenticationVerified(t)
    \/ \E t \in Tasks : AuthenticationResume(t)
    \/ \E t \in Tasks : ValidationExecute(t)
    \/ \E t \in Tasks : ValidationResume(t)
    \/ \E t \in Tasks : AuthorizationExecute(t)
    \/ \E t \in Tasks : AuthorizationResume(t)

SpecLimit == Init /\ [][NextLimit]_vars

---------------------------------------------------------------------------
(* HTTPServer after one client has used up its window: maxRequests requests
   of the client 10.0.0.1 were admitted at time 0 and have been answered *)

FullWindow == [k \in 1 .. maxRequests |-> 0]

\* requests of the client at its limit, next to those of the other callers
OrderRequests ==
    Requests
    \cup
    {Request("POST", "/users", Headers(authorization, <<"10.0.0.1">>), body) :
        authorization \in {<<>>, <<Bearer \o ValidToken>>},
        body \in {GoodBody, BadBody}}
    \cup
    {Request("GET", "/missing", Headers(<<>>, <<"10.0.0.1">>), EmptyBody)}

InitOrder ==
    /\ now = 0
    /\ ticks = 0
    /\ requests = ("10.0.0.1" :> FullWindow)
    /\ middlewares = setupMiddleware
    /\ calls = 0
    /\ ctl = [t \in Tasks |-> "idle"]
    /\ request = [t \in Tasks |-> NoRequest]
    /\ handler = [t \in Tasks |-> Nothing]
    /\ index = [t \in Tasks |-> 0]
    /\ stack = [t \in Tasks |-> <<>>]
    /\ val = [t \in Tasks |-> Nothing]
    /\ response = [t \in Tasks |-> Nothing]
    /\ obs = [t \in Tasks |-> NoObs]
    /\ admitted = ("10.0.0.1" :> FullWindow)

NextOrder ==
    \/ \E t \in Tasks, req \in OrderRequests : HandleRequest(t, req, MaxCalls)
    \/ \E t \in Tasks : PipelineNext(t)
    \/ \E t \in Tasks : ExecuteReturn(t)
    \/ \E t \in Tasks : HandleRequestReturn(t)
    \/ \E t \in Tasks : LoggingExecute(t)
    \/ \E t \in Tasks : LoggingResume(t)
    \/ \E t \in Tasks : RateLimitingExecute(t)
    \/ \E t \in Tasks : RateLimitingResume(t)
    \/ \E t \in Tasks : AuthenticationExecute(t)
    \/ \E t \in Tasks : AuthenticationVerified(t)
    \/ \E t \in Tasks : AuthenticationResume(t)
    \/ \E t \in Tasks : ValidationExecute(t)
    \/ \E t \in Tasks : ValidationResume(t)
    \/ \E t \in Tasks : AuthorizationExecute(t)
    \/ \E t \in Tasks : AuthorizationResume(t)

SpecOrder == InitOrder /\ [][NextOrder]_vars

---------------------------------------------------------------------------
(* ValidationMiddleware.validateField on its own: the call validateRequest
   makes for one declared field, lines 478-481, with any value in the body *)

\* value: any, line 488
FieldValues ==
    {Undefined, Null, Sym,
     Str(<<>>), Str(<<"A">>), Str(<<"A", "l">>),
     Str(<<"a", "@", "b">>), Str(<<"a", "@", "b", ".", "c", "o", "m">>),
     Str(<<"1", "7">>), Str(<<"2", "5">>),
     Num(17), Num(18), Num(25)}

\* the fields the two schemas declare, lines 431-447
Declared ==
    UNION {{schemas[key][k] : k \in 1 .. Len(schemas[key])} : key \in DOMAIN schemas}

\* const fieldErrors = this.validateField(field, value, rules)
ValidateField(t, decl, value) ==
    /\ ctl[t] = "idle"
    /\ calls < MaxCalls
    /\ calls' = calls + 1
    /\ val' = [val EXCEPT ![t] =
                 [kind |-> "validated",
                  field |-> decl.field,
                  rules |-> decl.rules,
                  value |-> value,
                  thrown |-> IsPresent(value) /\ FieldThrows(value, decl.rules),
                  errors |-> IF IsPresent(value) /\ FieldThrows(value, decl.rules)
                             THEN <<>>
                             ELSE validateField(decl.field, value, decl.rules)]]
    /\ UNCHANGED <<now, ticks, requests, middlewares, ctl, request, handler,
                   index, stack, response, obs, admitted>>

InitField == Init

NextField ==
    \E t \in Tasks, decl \in Declared, value \in FieldValues :
        ValidateField(t, decl, value)

SpecField == InitField /\ [][NextField]_vars

---------------------------------------------------------------------------
(* HTTPServer under the scheduling of the event loop.  Synchronous code runs
   to its next await, and a continuation whose promise has settled is run:
   every step of a chain is weakly fair.  verifyToken stands for an external
   call (lines 368-377): the verification of the last caller is left without
   fairness, it may never complete. *)

LiveRequests ==
    {Request("POST", "/users", Headers(<<Bearer \o ValidToken>>, <<>>), body) :
        body \in {GoodBody, BadBody, SymbolBody}}
    \cup
    {Request("POST", "/users", Headers(<<Bearer \o StaleToken>>, <<>>), GoodBody),
     Request("GET", "/users/123", Headers(<<>>, <<>>), EmptyBody),
     Request("GET", "/missing", Headers(<<>>, <<>>), EmptyBody)}

\* the steps of the chain of t, the completion of verifyToken aside
ChainStep(t) ==
    \/ PipelineNext(t)
    \/ ExecuteReturn(t)
    \/ HandleRequestReturn(t)
    \/ LoggingExecute(t)
    \/ LoggingResume(t)
    \/ RateLimitingExecute(t)
    \/ RateLimitingResume(t)
    \/ AuthenticationExecute(t)
    \/ AuthenticationResume(t)
    \/ ValidationExecute(t)
    \/ ValidationResume(t)
    \/ AuthorizationExecute(t)
    \/ AuthorizationResume(t)

NextLive ==
    \/ \E t \in Tasks, req \in LiveRequests : HandleRequest(t, req, MaxCalls)
    \/ \E t \in Tasks : ChainStep(t)
    \/ \E t \in Tasks : AuthenticationVerified(t)

Scheduling ==
    /\ \A t \in Tasks : WF_vars(ChainStep(t))
    /\ \A t \in Tasks \ {NumTasks} : WF_vars(AuthenticationVerified(t))

SpecLive == Init /\ [][NextLive]_vars /\ Scheduling

---------------------------------------------------------------------------
(* MiddlewarePipeline on its own: any caller, any registered middlewares *)

PipeKinds ==
    CustomKinds \cup {"Logging", "Authentication", "Validation", "Authorization"}

\* what the terminal handler passed to execute yields when it is called
Handlers ==
    {Response(200, [message |-> "Handled"]), Failure("Handler failed", 0)}

PipeRequests ==
    {Request("GET", "/items", Headers(authorization, <<>>), EmptyBody) :
        authorization \in {<<>>, <<Bearer \o ValidToken>>, <<Bearer \o StaleToken>>}}
    \cup
    {Request("GET", "/items", NoHeaders, BadBody)}
    \cup
    {Request("GET", "/admin/users", Headers(authorization, <<>>), EmptyBody) :
        authorization \in {<<>>, <<Bearer \o ValidToken>>, <<Bearer \o AdminToken>>}}
    \cup
    {Request("POST", "/users", Headers(authorization, <<>>), body) :
        authorization \in {<<>>, <<Bearer \o ValidToken>>}, body \in Bodies}

InitPipe ==
    /\ now = 0
    /\ ticks = 0
    /\ requests = [k \in {} |-> <<>>]
    /\ middlewares = <<>>
    /\ calls = 0
    /\ ctl = [t \in Tasks |-> "idle"]
    /\ request = [t \in Tasks |-> NoRequest]
    /\ handler = [t \in Tasks |-> Nothing]
    /\ index = [t \in Tasks |-> 0]
    /\ stack = [t \in Tasks |-> <<>>]
    /\ val = [t \in Tasks |-> Nothing]
    /\ response = [t \in Tasks |-> Nothing]
    /\ obs = [t \in Tasks |-> NoObs]
    /\ admitted = [k \in {} |-> <<>>]

NextPipe ==
    \/ \E kind \in PipeKinds : Use(kind)
    \/ \E t \in Tasks, req \in PipeRequests, h \in Handlers : Execute(t, req, h)
    \/ \E t \in Tasks : PipelineNext(t)
    \/ \E t \in Tasks : ExecuteReturn(t)
    \/ \E t \in Tasks : CustomExecute(t)
    \/ \E t \in Tasks : CustomResume(t)
    \/ \E t \in Tasks : LoggingExecute(t)
    \/ \E t \in Tasks : LoggingResume(t)
    \/ \E t \in Tasks : AuthenticationExecute(t)
    \/ \E t \in Tasks : AuthenticationVerified(t)
    \/ \E t \in Tasks : AuthenticationResume(t)
    \/ \E t \in Tasks : ValidationExecute(t)
    \/ \E t \in Tasks : ValidationResume(t)
    \/ \E t \in Tasks : AuthorizationExecute(t)
    \/ \E t \in Tasks : AuthorizationResume(t)

SpecPipe == InitPipe /\ [][NextPipe]_vars

---------------------------------------------------------------------------
(* What the claims speak of *)

Range(seq) == {seq[k] : k \in 1 .. Len(seq)}

Positions(kind) == {p \in 1 .. Len(middlewares) : middlewares[p] = kind}

\* the call of the middleware at position p has been made and has ended
Ended(t, p) ==
    /\ p \in Range(obs[t].trace)
    /\ \A k \in 1 .. Len(stack[t]) : stack[t][k].mw # p

InFlight(t) == ctl[t] \notin {"idle", "done", "exec_done"}

\* the authorization header as the client sent it: absent, or not "Bearer ..."
SentWithoutBearer(req) ==
    \/ "authorization" \notin DOMAIN req.headers
    \/ Len(req.headers["authorization"]) < 7
    \/ \E k \in 1 .. 7 : req.headers["authorization"][k] # Bearer[k]

\* steps of the call of the middleware at position p, as a spy sees them:
\* its body runs up to its answer or its call of next()
EntersBody(t, p) ==
    /\ ctl[t] = "enter"
    /\ Top(t).mw = p
    /\ ctl'[t] # "enter"

\* the body ended by a call of next()
CallsNext(t, p) ==
    /\ ctl'[t] = "call"
    /\ obs'[t].delegated = Append(obs[t].delegated, p)

\* the body ended by a response of its own, next() not called
AnswersItself(t, p, status) ==
    /\ ctl'[t] = "ret"
    /\ stack'[t] = Pop(stack[t])
    /\ IsResponse(val'[t])
    /\ val'[t].status = status
    /\ obs'[t].delegated = obs[t].delegated

\* the call returns after its await next()
ReturnsFromNext(t, p) ==
    /\ ctl[t] = "ret"
    /\ stack[t] # <<>>
    /\ Top(t).mw = p
    /\ stack'[t] = Pop(stack[t])

\* a declared field's value breaks one of the field's rules
Invalid(value, rules) ==
    IF value.kind \in {"undefined", "null"}
    THEN rules.required
    ELSE \/ rules.type = "email"
            /\ ~(value.kind = "string" /\ MatchesEmail(value.v))
         \/ rules.type = "string" /\ value.kind # "string"
         \/ rules.type = "number" /\ value.kind # "number"
         \/ rules.minLength # 0 /\ value.kind = "string"
            /\ Len(value.v) < rules.minLength
         \/ rules.min # 0 /\ value.kind = "number" /\ value.v < rules.min

\* the declared fields of the request's schema that its body gets wrong
InvalidFields(req) ==
    {k \in 1 .. Len(schemas[RouteKey(req)]) :
        Invalid(bodyField(req, schemas[RouteKey(req)][k].field),
                schemas[RouteKey(req)][k].rules)}

\* the messages the Validator has for a field
ErrorsOf(field, rules) ==
    {field \o " is required",
     field \o " must be a valid email",
     field \o " must be a string",
     field \o " must be a number",
     field \o " must be at least " \o ToString(rules.minLength) \o " characters",
     field \o " must be at least " \o ToString(rules.min)}

\* the handlers of strategy.ts, and a pipeline made of them only
Shipped == {"Logging", "RateLimiting", "Authentication", "Validation", "Authorization"}

AllShipped == \A p \in 1 .. Len(middlewares) : middlewares[p] \in Shipped

\* the statuses of the deliberate rejections
Rejections == {400, 401, 403, 429}

\* task t's request passes the rate limiter's check in this step
LimiterDecides(t) == obs[t].limiter = <<>> /\ obs'[t].limiter # <<>>

\* the checks that would reject a request, in the order of the claim
Checks(req) ==
    LET sent == header(req, "authorization")
        role == IF sent = <<Bearer \o AdminToken>> THEN "admin" ELSE "user"
        key == IF "x-forwarded-for" \in DOMAIN req.headers
               THEN req.headers["x-forwarded-for"] ELSE "unknown"
        recent == Len(SelectSeq(stored(admitted, key),
                                LAMBDA time : now - time < windowMs))
    IN
    <<[status |-> 404,
       rejects |-> RouteKey(req) \notin
                     {"GET:/users/123", "POST:/users", "DELETE:/users/123"}],
      [status |-> 429, rejects |-> recent >= maxRequests],
      [status |-> 401,
       rejects |-> sent \notin {<<Bearer \o ValidToken>>, <<Bearer \o AdminToken>>}],
      [status |-> 400,
       rejects |-> RouteKey(req) \in DOMAIN schemas /\ InvalidFields(req) # {}],
      [status |-> 403,
       rejects |-> /\ RouteKey(req) \in DOMAIN permissions
                   /\ role \notin permissions[RouteKey(req)]]>>

Rejecting(req) == {k \in 1 .. 5 : Checks(req)[k].rejects}

---------------------------------------------------------------------------
\* C1: for every client key and every interleaving of concurrent requests,
\* among the requests the rate limiter admitted for that key no more than
\* maxRequests have recorded timestamps that lie within one window of
\* windowMs (of any admitted timestamp back to less than windowMs before it).
C1_AtMostMaxRequestsPerWindow ==
    \A c \in DOMAIN admitted :
        \A j \in 1 .. Len(admitted[c]) :
            Cardinality({i \in 1 .. j :
                            admitted[c][j] - admitted[c][i] < windowMs})
                <= maxRequests

\* two requests of one client are in flight together, one admitted as the
\* last of its window and one rejected
C1_Witness ==
    \E t \in Tasks : \E u \in Tasks \ {t} :
        /\ InFlight(t) /\ InFlight(u)
        /\ obs[t].limiter # <<>> /\ obs[u].limiter # <<>>
        /\ obs[t].limiter[1].key = obs[u].limiter[1].key
        /\ obs[t].limiter[1].verdict = "admitted"
        /\ obs[u].limiter[1].verdict = "rejected"
        /\ Len(admitted[obs[t].limiter[1].key]) = maxRequests

---------------------------------------------------------------------------
\* C2: in the HTTPServer pipeline a failure raised by the terminal handler or
\* by the internal logic of a handler (anything but the rejection of a token
\* by verifyToken) is caught by no handler, is reported by the Logger as an
\* error, and handleRequest answers it with 500 {error: 'Internal server
\* error'}.
C2_FailureIsAnswered500 ==
    \A t \in Tasks :
        (/\ ctl[t] = "done"
         /\ \E r \in Range(obs[t].raised) : r.failure.message # "Invalid token")
        => /\ response[t] = InternalServerError
           /\ \A f \in Range(obs[t].caught) : f.message = "Invalid token"
           /\ \E e \in Range(obs[t].log) : e.event = "Error"

---------------------------------------------------------------------------
\* C3: DELETE /users/123 with the bearer token of a 'user' identity is
\* answered 403 and the terminal handler of DELETE:/users/123 is not invoked.
C3_DeleteByUserIs403 ==
    \A t \in Tasks :
        (/\ obs[t].submitted # <<>>
         /\ obs[t].submitted[1].method = "DELETE"
         /\ obs[t].submitted[1].path = "/users/123"
         /\ header(obs[t].submitted[1], "authorization") = <<Bearer \o ValidToken>>)
        => /\ obs[t].terminal = 0
           /\ (ctl[t] = "done" => response[t].status = 403)

---------------------------------------------------------------------------
\* C4: within one execution, a second invocation of the continuation handed
\* to a handler fails with InvalidChainState; it invokes neither a further
\* handler nor the terminal handler.
C4_SecondInvocationFails ==
    \A t \in Tasks :
        \A k \in 1 .. Len(obs[t].repeated) :
            obs[t].repeated[k] = "InvalidChainState"

---------------------------------------------------------------------------
\* C5: a request that finds maxRequests admitted requests of its client
\* within the last windowMs is rejected with 429 and a Retry-After header and
\* not delegated; a request that arrives when windowMs has elapsed since
\* every earlier admission of its client is admitted and delegated.
C5_RejectedInsideAdmittedAfter ==
    \A t \in Tasks :
        \A p \in Positions("RateLimiting") :
            /\ (obs[t].limiter # <<>> /\ obs[t].limiter[1].full)
                => (/\ obs[t].limiter[1].verdict = "rejected"
                    /\ p \notin Range(obs[t].delegated)
                    /\ \E s \in Range(obs[t].short) :
                         /\ s.mw = p
                         /\ s.response.status = 429
                         /\ "Retry-After" \in DOMAIN s.response.headers)
            /\ (obs[t].limiter # <<>> /\ obs[t].limiter[1].fresh)
                => (/\ obs[t].limiter[1].verdict = "admitted"
                    /\ p \in Range(obs[t].delegated))

\* one client was rejected at the limit and, the window over, admitted again
C5_Witness ==
    \E t \in Tasks : \E u \in Tasks \ {t} :
        /\ obs[t].limiter # <<>> /\ obs[u].limiter # <<>>
        /\ obs[t].limiter[1].key = obs[u].limiter[1].key
        /\ obs[t].limiter[1].full
        /\ obs[t].limiter[1].verdict = "rejected"
        /\ obs[u].limiter[1].fresh
        /\ obs[u].limiter[1].verdict = "admitted"
        /\ Len(admitted[obs[u].limiter[1].key]) = maxRequests + 1

---------------------------------------------------------------------------
\* C6: for a request whose authorization header is absent or does not start
\* with 'Bearer ', the Authenticator answers 401, never calls next, never
\* calls verifyToken and leaves request.user as it was.
C6_NoBearerIs401 ==
    \A t \in Tasks :
        \A p \in Positions("Authentication") :
            (/\ obs[t].submitted # <<>>
             /\ SentWithoutBearer(obs[t].submitted[1])
             /\ p \in Range(obs[t].trace))
            => /\ obs[t].verify = 0
               /\ p \notin Range(obs[t].delegated)
               /\ request[t].user = obs[t].submitted[1].user
               /\ (Ended(t, p) =>
                    \E s \in Range(obs[t].short) :
                        s.mw = p /\ s.response.status = 401)

\* a request with a header that is present and not a bearer header got 401
C6_Witness ==
    \E t \in Tasks :
        /\ ctl[t] = "done"
        /\ header(request[t], "authorization") = <<Basic \o ValidToken>>
        /\ \E p \in Positions("Authentication") : Ended(t, p)
        /\ response[t].status = 401

---------------------------------------------------------------------------
\* C7: for any fixed configuration and any request, the handlers invoked by
\* one execution are the first handlers of the registration order, in that
\* order, and none is invoked after the first handler that short-circuits.
C7_InvokedIsPrefixEndingAtShortCircuit ==
    \A t \in Tasks :
        /\ \A k \in 1 .. Len(obs[t].trace) : obs[t].trace[k] = k
        /\ \A s \in Range(obs[t].short) : Len(obs[t].trace) <= s.mw

---------------------------------------------------------------------------
\* C8: the terminal handler is invoked if and only if every registered
\* handler called its continuation; when a handler returns a response
\* without calling its continuation no later handler and not the terminal
\* handler is invoked, and execute returns that handler's response.
C8_TerminalIffAllDelegate ==
    \A t \in Tasks :
        ctl[t] = "exec_done"
        => /\ (obs[t].terminal > 0
                <=> \A p \in 1 .. Len(middlewares) : p \in Range(obs[t].delegated))
           /\ \A s \in Range(obs[t].short) :
                /\ Len(obs[t].trace) <= s.mw
                /\ obs[t].terminal = 0
                /\ val[t] = s.response

---------------------------------------------------------------------------
\* C9: within one execution no registered handler is invoked more than once,
\* whatever is registered, handlers that call their continuation several
\* times included.
C9_NoHandlerInvokedTwice ==
    \A t \in Tasks :
        \A j \in 1 .. Len(obs[t].trace), k \in 1 .. Len(obs[t].trace) :
            obs[t].trace[j] = obs[t].trace[k] => j = k

\* a handler has called its continuation a second time, and that call went on
\* to a further handler
C9_Witness ==
    \E t \in Tasks :
        /\ "handler" \in Range(obs[t].repeated)
        /\ Len(obs[t].trace) = Len(middlewares)
        /\ Len(middlewares) >= 2

---------------------------------------------------------------------------
\* C10: execute swallows no failure: when a handler or the terminal handler
\* raised a failure that no handler of the chain caught, execute fails
\* towards its caller with that failure and returns no response.
C10_UncaughtFailureReachesCaller ==
    \A t \in Tasks :
        ctl[t] = "exec_done"
        => LET uncaught == {r.failure : r \in Range(obs[t].raised)}
                              \ Range(obs[t].caught)
           IN  uncaught # {} => (IsFailure(val[t]) /\ val[t] \in uncaught)

\* a failure of the terminal handler went up through handlers to the caller
C10_Witness ==
    \E t \in Tasks :
        /\ ctl[t] = "exec_done"
        /\ Len(middlewares) >= 2
        /\ obs[t].caught = <<>>
        /\ \E r \in Range(obs[t].raised) : r.where = 0 /\ val[t] = r.failure

---------------------------------------------------------------------------
\* C11: a request the rate limiter rejects is answered by it with status 429
\* and a Retry-After header that is the window in seconds (windowMs / 1000);
\* the limiter does not call next, so no later handler and not the terminal
\* handler runs for that request.
C11_RejectionIs429WithRetryAfter ==
    \A t \in Tasks :
        \A p \in Positions("RateLimiting") :
            (obs[t].limiter # <<>> /\ obs[t].limiter[1].verdict = "rejected")
            => /\ \E s \in Range(obs[t].short) :
                    /\ s.mw = p
                    /\ s.response.status = 429
                    /\ DOMAIN s.response.headers = {"Retry-After"}
                    /\ s.response.headers["Retry-After"] = ToString(windowMs \div 1000)
               /\ p \notin Range(obs[t].delegated)
               /\ \A q \in Range(obs[t].trace) : q <= p
               /\ obs[t].terminal = 0
               /\ (ctl[t] = "done" => response[t].status = 429)

\* a rejected request has been answered
C11_Witness ==
    \E t \in Tasks :
        /\ ctl[t] = "done"
        /\ obs[t].limiter # <<>>
        /\ obs[t].limiter[1].verdict = "rejected"
        /\ response[t].status = 429
        /\ "Retry-After" \in DOMAIN response[t].headers

---------------------------------------------------------------------------
\* C12: when verifyToken rejects the bearer token, the Authenticator answers
\* 401 with the fixed body {error: 'Invalid token'}, does not call next and
\* attaches no identity to the request.
C12_RejectedTokenIs401 ==
    \A t \in Tasks :
        \A p \in Positions("Authentication") :
            (/\ obs[t].submitted # <<>>
             /\ header(obs[t].submitted[1], "authorization") = <<Bearer \o StaleToken>>
             /\ p \in Range(obs[t].trace))
            => /\ p \notin Range(obs[t].delegated)
               /\ request[t].user = obs[t].submitted[1].user
               /\ \A q \in Range(obs[t].trace) : q <= p
               /\ obs[t].terminal = 0
               /\ (Ended(t, p) =>
                    /\ obs[t].verify = 1
                    /\ \E s \in Range(obs[t].short) :
                         /\ s.mw = p
                         /\ s.response.status = 401
                         /\ s.response.body = [error |-> "Invalid token"])

\* verifyToken was called, rejected the token, and the request was answered
C12_Witness ==
    \E t \in Tasks :
        /\ ctl[t] = "done"
        /\ header(request[t], "authorization") = <<Bearer \o StaleToken>>
        /\ obs[t].verify = 1
        /\ \E r \in Range(obs[t].raised) : r.failure \in Range(obs[t].caught)
        /\ response[t] = Response(401, [error |-> "Invalid token"])
        /\ request[t].user = <<>>

---------------------------------------------------------------------------
\* C13: when verifyToken accepts the token, the Authenticator attaches the
\* identity {id, email, role} it resolved to the request before it calls
\* next, and calls next once: every handler invoked after the Authenticator
\* and the terminal handler find that identity on the request.
C13_IdentityAttachedBeforeNext ==
    [][\A t \in Tasks :
        \A p \in Positions("Authentication") :
            LET sent == header(request[t], "authorization")
                identity ==
                    IF sent = <<Bearer \o ValidToken>>
                    THEN [id |-> "user123", email |-> "user@example.com",
                          role |-> "user"]
                    ELSE [id |-> "admin123", email |-> "admin@example.com",
                          role |-> "admin"]
                invokes ==
                    \/ Len(obs'[t].trace) = Len(obs[t].trace) + 1
                    \/ obs'[t].terminal = obs[t].terminal + 1
            IN
            /\ \A j \in 1 .. Len(obs[t].delegated), k \in 1 .. Len(obs[t].delegated) :
                    (obs[t].delegated[j] = p /\ obs[t].delegated[k] = p) => j = k
            /\ (/\ sent \in {<<Bearer \o ValidToken>>, <<Bearer \o AdminToken>>}
                /\ p \in Range(obs[t].trace)
                /\ Ended(t, p))
               => p \in Range(obs[t].delegated)
            /\ (p \in Range(obs[t].delegated) /\ invokes)
               => (/\ sent \in {<<Bearer \o ValidToken>>, <<Bearer \o AdminToken>>}
                   /\ request[t].user = <<identity>>
                   /\ request'[t].user = <<identity>>)
    ]_vars

\* the handlers behind the Authenticator and the terminal handler have run on
\* a request that carries the identity of its token
C13_Witness ==
    \E t \in Tasks :
        /\ ctl[t] = "done"
        /\ obs[t].submitted[1].user = <<>>
        /\ header(request[t], "authorization") = <<Bearer \o AdminToken>>
        /\ request[t].user # <<>>
        /\ request[t].user[1].id = "admin123"
        /\ Len(obs[t].trace) = Len(middlewares)
        /\ obs[t].terminal = 1

---------------------------------------------------------------------------
\* C14: for a request whose METHOD:path is in the permission registry, the
\* Authorizer answers 401 without calling next when no identity is attached,
\* answers 403 without calling next when the attached identity's role is not
\* one of the required roles, and otherwise calls next once and returns what
\* next returned.
C14_AuthorizerDecides ==
    [][\A t \in Tasks :
        \A p \in Positions("Authorization") :
            LET key == RouteKey(request[t])
            IN
            /\ (EntersBody(t, p) /\ key \in DOMAIN permissions)
               => IF request[t].user = <<>>
                  THEN AnswersItself(t, p, 401)
                  ELSE IF request[t].user[1].role \notin permissions[key]
                  THEN AnswersItself(t, p, 403)
                  ELSE CallsNext(t, p)
            /\ ReturnsFromNext(t, p)
               => (Top(t).invoked = 1 /\ val'[t] = val[t])
    ]_vars

\* an identity of role 'user' asked for a route of administrators: 403
C14_Witness ==
    \E t \in Tasks :
        /\ ctl[t] = "exec_done"
        /\ RouteKey(request[t]) = "GET:/admin/users"
        /\ request[t].user # <<>>
        /\ request[t].user[1].role = "user"
        /\ \E s \in Range(obs[t].short) :
             middlewares[s.mw] = "Authorization" /\ s.response.status = 403
        /\ val[t].status = 403

---------------------------------------------------------------------------
\* C15: for a request whose METHOD:path is not in the schema registry the
\* Validator calls next and returns what next returned, and for a request
\* whose METHOD:path is not in the permission registry the Authorizer does
\* the same, whatever body, headers and identity the request carries.
C15_AbsentKeyDelegates ==
    [][\A t \in Tasks :
        /\ \A p \in Positions("Validation") :
            /\ (EntersBody(t, p) /\ RouteKey(request[t]) \notin DOMAIN schemas)
               => CallsNext(t, p)
            /\ (ReturnsFromNext(t, p) /\ RouteKey(request[t]) \notin DOMAIN schemas)
               => val'[t] = val[t]
        /\ \A p \in Positions("Authorization") :
            /\ (EntersBody(t, p) /\ RouteKey(request[t]) \notin DOMAIN permissions)
               => CallsNext(t, p)
            /\ (ReturnsFromNext(t, p) /\ RouteKey(request[t]) \notin DOMAIN permissions)
               => val'[t] = val[t]
    ]_vars

\* a request for a route in neither registry, with a body no schema would
\* accept and no identity, went through Validator and Authorizer
C15_Witness ==
    \E t \in Tasks :
        /\ ctl[t] = "exec_done"
        /\ RouteKey(request[t]) = "GET:/items"
        /\ request[t].body = BadBody
        /\ request[t].user = <<>>
        /\ \E p \in Positions("Validation") : p \in Range(obs[t].delegated)
        /\ \E p \in Positions("Authorization") : p \in Range(obs[t].delegated)
        /\ obs[t].terminal >= 1
        /\ val[t] = handler[t]

---------------------------------------------------------------------------
\* C16: for a route with a schema the Validator checks every declared field:
\* when fields are invalid it answers 400 with a details list that holds an
\* error for each of them and does not call next; it answers 400 exactly
\* when the list of errors is not empty, and otherwise calls next.
C16_EveryInvalidFieldReported ==
    \A t \in Tasks :
        \A p \in Positions("Validation") :
            (Ended(t, p) /\ RouteKey(request[t]) \in DOMAIN schemas)
            => LET schema == schemas[RouteKey(request[t])]
                   answers == {s \in Range(obs[t].short) : s.mw = p}
               IN
               /\ (InvalidFields(request[t]) # {})
                  => (/\ p \notin Range(obs[t].delegated)
                      /\ \E s \in answers :
                           /\ s.response.status = 400
                           /\ \A k \in InvalidFields(request[t]) :
                                \E e \in Range(s.response.body.details) :
                                    e \in ErrorsOf(schema[k].field, schema[k].rules))
               /\ (InvalidFields(request[t]) = {})
                  => (answers = {} /\ p \in Range(obs[t].delegated))
               /\ \A s \in answers :
                    s.response.status = 400 /\ s.response.body.details # <<>>

---------------------------------------------------------------------------
\* C17: each run of the Validator on a request whose body satisfies the
\* schema of its route finds no error and calls next, and no run of the
\* Validator changes the request (body, headers, identity): a further run on
\* the same request ends the same way.
C17_ValidBodyAlwaysPasses ==
    [][\A t \in Tasks :
        \A p \in Positions("Validation") :
            /\ (/\ EntersBody(t, p)
                /\ RouteKey(request[t]) \in DOMAIN schemas
                /\ InvalidFields(request[t]) = {})
               => CallsNext(t, p)
            /\ (EntersBody(t, p) \/ ReturnsFromNext(t, p))
               => request'[t] = request[t]
    ]_vars

\* the Validator ran twice on one request with a valid body, and called next
\* both times
C17_Witness ==
    \E t \in Tasks :
        /\ ctl[t] = "exec_done"
        /\ RouteKey(request[t]) = "POST:/users"
        /\ request[t].body = GoodBody
        /\ request[t] = obs[t].submitted[1]
        /\ \E p \in Positions("Validation") : \E q \in Positions("Validation") :
             /\ p # q
             /\ p \in Range(obs[t].delegated)
             /\ q \in Range(obs[t].delegated)
        /\ obs[t].short = <<>>

---------------------------------------------------------------------------
\* C18: with the Rate Limiter registered before the Authenticator, the key
\* of every request handled by handleRequest is its x-forwarded-for header
\* if it has one and 'unknown' if not, never the id of an identity, also
\* when a request object is handed to handleRequest a second time.
C18_KeyIsHeaderOrUnknown ==
    \A t \in Tasks :
        (/\ obs[t].limiter # <<>>
         /\ \E p \in Positions("RateLimiting") : \E q \in Positions("Authentication") :
              p < q)
        => /\ obs[t].limiter[1].key =
                IF "x-forwarded-for" \in DOMAIN obs[t].submitted[1].headers
                THEN obs[t].submitted[1].headers["x-forwarded-for"]
                ELSE "unknown"
           /\ obs[t].limiter[1].key \notin {"user123", "admin123"}

---------------------------------------------------------------------------
\* C19: of the requests that one unauthenticated client, known by its
\* x-forwarded-for header, sends to a registered route within 60 s, the
\* first ten are admitted past the rate limiter and none of them is answered
\* 429; the eleventh is answered 429.
C19_EleventhInWindowIs429 ==
    \A t \in Tasks :
        \A p \in Positions("RateLimiting") :
            (/\ obs[t].limiter # <<>>
             /\ "x-forwarded-for" \in DOMAIN obs[t].submitted[1].headers
             /\ "authorization" \notin DOMAIN obs[t].submitted[1].headers
             /\ obs[t].submitted[1].user = <<>>)
            => /\ obs[t].limiter[1].key = obs[t].submitted[1].headers["x-forwarded-for"]
               /\ obs[t].limiter[1].full
                  => (/\ obs[t].limiter[1].verdict = "rejected"
                      /\ (ctl[t] = "done" => response[t].status = 429))
               /\ ~obs[t].limiter[1].full
                  => (/\ obs[t].limiter[1].verdict = "admitted"
                      /\ p \in Range(obs[t].delegated)
                      /\ (ctl[t] = "done" => response[t].status # 429))

\* ten requests of the client were admitted within one window, the tenth has
\* been answered, not with 429, and the eleventh has been answered 429
C19_Witness ==
    \E t \in Tasks : \E u \in Tasks \ {t} :
        /\ ctl[t] = "done" /\ ctl[u] = "done"
        /\ "authorization" \notin DOMAIN request[t].headers
        /\ "authorization" \notin DOMAIN request[u].headers
        /\ obs[t].limiter # <<>> /\ obs[u].limiter # <<>>
        /\ obs[t].limiter[1].key = "10.0.0.1"
        /\ obs[u].limiter[1].key = "10.0.0.1"
        /\ Len(admitted["10.0.0.1"]) = maxRequests
        /\ now - admitted["10.0.0.1"][1] < 60 * 1000
        /\ obs[u].limiter[1].verdict = "admitted"
        /\ response[u].status # 429
        /\ obs[t].limiter[1].verdict = "rejected"
        /\ response[t].status = 429

---------------------------------------------------------------------------
\* C20: POST /users with body {email: 'a@b.com', name: 'Al', age: 25} and
\* the valid bearer token of a 'user', handed to handleRequest while its
\* client is under the rate limit, passes the five handlers in order and is
\* answered 201 with the body of the terminal handler, which runs once.
C20_ValidPostIs201 ==
    \A t \in Tasks :
        (/\ obs[t].submitted # <<>>
         /\ obs[t].submitted[1].method = "POST"
         /\ obs[t].submitted[1].path = "/users"
         /\ obs[t].submitted[1].body = GoodBody
         /\ header(obs[t].submitted[1], "authorization") = <<Bearer \o ValidToken>>
         /\ obs[t].limiter # <<>>
         /\ ~obs[t].limiter[1].full)
        => /\ \A k \in 1 .. Len(obs[t].trace) : obs[t].trace[k] = k
           /\ obs[t].short = <<>>
           /\ obs[t].raised = <<>>
           /\ obs[t].terminal <= 1
           /\ ctl[t] = "done"
              => (/\ obs[t].trace = <<1, 2, 3, 4, 5>>
                  /\ obs[t].delegated = <<1, 2, 3, 4, 5>>
                  /\ obs[t].terminal = 1
                  /\ response[t].status = 201
                  /\ response[t].body =
                        [id |-> "new-user", message |-> "User created successfully"])

\* the request has been answered 201
C20_Witness ==
    \E t \in Tasks :
        /\ ctl[t] = "done"
        /\ request[t].method = "POST"
        /\ request[t].body = GoodBody
        /\ request[t].user # <<>>
        /\ request[t].user[1].role = "user"
        /\ obs[t].terminal = 1
        /\ response[t].status = 201

---------------------------------------------------------------------------
\* C21: when no terminal handler is registered for METHOD:path, handleRequest
\* returns 404 before the pipeline runs: no handler is invoked, the Logger
\* prints nothing, no identity is attached and the table of the rate limiter
\* stays as it was.
C21_NoRouteIs404BeforePipeline ==
    [][\A t \in Tasks :
        /\ (/\ obs'[t].submitted # <<>>
            /\ RouteKey(obs'[t].submitted[1]) \notin
                  {"GET:/users/123", "POST:/users", "DELETE:/users/123"})
           => (/\ ctl'[t] = "done"
               /\ response'[t].status = 404
               /\ obs'[t].trace = <<>>
               /\ obs'[t].terminal = 0
               /\ obs'[t].log = <<>>
               /\ obs'[t].limiter = <<>>
               /\ request'[t] = obs'[t].submitted[1])
        /\ (calls' = calls + 1 /\ ctl'[t] = "done")
           => (requests' = requests /\ admitted' = admitted)
    ]_vars

\* a request for a path without handler was answered while the table of the
\* rate limiter held the admissions of other requests
C21_Witness ==
    \E t \in Tasks :
        /\ ctl[t] = "done"
        /\ RouteKey(request[t]) = "GET:/missing"
        /\ response[t] = Response(404, [error |-> "Route not found"])
        /\ obs[t].trace = <<>>
        /\ DOMAIN requests # {}

---------------------------------------------------------------------------
---------------------------------------------------------------------------
---------------------------------------------------------------------------
\* C24: the Logger calls next once and reports in both cases: a response of
\* next is reported with its status and returned as it is; a failure of next
\* is reported and raised again, the same failure, not a response and not
\* another failure.
C24_LoggerReportsAndPassesOn ==
    [][\A t \in Tasks :
        \A p \in Positions("Logging") :
            /\ EntersBody(t, p) => CallsNext(t, p)
            /\ ReturnsFromNext(t, p)
               => (/\ Top(t).invoked = 1
                   /\ val'[t] = val[t]
                   /\ obs'[t].raised = obs[t].raised
                   /\ obs'[t].caught = obs[t].caught
                   /\ obs'[t].log =
                        Append(obs[t].log,
                               IF IsResponse(val[t])
                               THEN [event |-> "Completed", status |-> val[t].status]
                               ELSE [event |-> "Error", message |-> val[t].message]))
    ]_vars

\* a failure of the terminal handler went through the Logger and reached the
\* caller of execute
C24_Witness ==
    \E t \in Tasks :
        /\ ctl[t] = "exec_done"
        /\ middlewares # <<>>
        /\ middlewares[1] = "Logging"
        /\ IsFailure(val[t])
        /\ val[t].message = "Handler failed"
        /\ obs[t].log = <<[event |-> "Started"],
                           [event |-> "Error", message |-> "Handler failed"]>>

---------------------------------------------------------------------------
\* C25: in every state of the rate limiter the sequence stored for a client
\* has at most maxRequests timestamps, and right after a prune every
\* timestamp stored for the pruned client is less than windowMs older than
\* the time of the prune.
C25_StoredSequenceBounded ==
    [][/\ \A c \in DOMAIN requests : Len(requests[c]) <= maxRequests
       /\ \A c \in DOMAIN requests' : Len(requests'[c]) <= maxRequests
       /\ \A t \in Tasks :
            LimiterDecides(t)
            => \A k \in 1 .. Len(requests'[obs'[t].limiter[1].key]) :
                 now - requests'[obs'[t].limiter[1].key][k] < windowMs
    ]_vars

\* a client filled its sequence, the window passed, and a prune emptied the
\* sequence before the next admission
C25_Witness ==
    \E c \in DOMAIN requests :
        /\ Len(admitted[c]) = maxRequests + 1
        /\ Len(requests[c]) = 1
        /\ now - admitted[c][1] >= windowMs

---------------------------------------------------------------------------
\* C26: a request that several checks would reject is answered by
\* handleRequest with the status of the earliest of them in the order 404,
\* 429, 401, 400, 403: a rate-limited request gets 429 whatever its
\* credentials and body, an unauthenticated request with an invalid body
\* gets 401.
C26_EarliestRejectionWins ==
    \A t \in Tasks :
        (ctl[t] = "done" /\ Cardinality(Rejecting(obs[t].submitted[1])) >= 2)
        => \E k \in Rejecting(obs[t].submitted[1]) :
             /\ \A j \in Rejecting(obs[t].submitted[1]) : k <= j
             /\ response[t].status = Checks(obs[t].submitted[1])[k].status

\* a request of the client at its limit, without credentials and with an
\* invalid body, was answered 429, and one of another client, without
\* credentials and with an invalid body, 401
C26_Witness ==
    \E t \in Tasks : \E u \in Tasks \ {t} :
        /\ ctl[t] = "done" /\ ctl[u] = "done"
        /\ Rejecting(obs[t].submitted[1]) = {2, 3, 4}
        /\ response[t].status = 429
        /\ Rejecting(obs[u].submitted[1]) = {3, 4}
        /\ response[u].status = 401

---------------------------------------------------------------------------
\* C27: in one execution the terminal handler is invoked at most once and the
\* response is produced by exactly one handler, a short-circuiting handler
\* or the terminal handler, whatever is registered, handlers that call their
\* continuation more than once included.
C27_TerminalAtMostOnce ==
    \A t \in Tasks :
        /\ obs[t].terminal <= 1
        /\ Len(obs[t].short) + obs[t].terminal <= 1

---------------------------------------------------------------------------
\* C28: concurrent executions on one pipeline do not interfere: under every
\* interleaving at the awaits each execution invokes the handlers in
\* registration order from the first on, with a chain position and a request
\* of its own, and a step of one execution changes nothing of another but
\* the table of the rate limiter.
C28_ExecutionsDoNotInterfere ==
    [][\A t \in Tasks :
        /\ \A k \in 1 .. Len(obs'[t].trace) : obs'[t].trace[k] = k
        /\ middlewares' = middlewares
        /\ (ctl'[t] # ctl[t] \/ stack'[t] # stack[t] \/ obs'[t] # obs[t])
           => \A u \in Tasks \ {t} :
                /\ index'[u] = index[u]
                /\ request'[u] = request[u]
                /\ handler'[u] = handler[u]
                /\ stack'[u] = stack[u]
                /\ val'[u] = val[u]
                /\ ctl'[u] = ctl[u]
                /\ obs'[u] = obs[u]
    ]_vars

\* two executions are suspended in the middle of their chains, at different
\* positions and with different requests
C28_Witness ==
    \E t \in Tasks : \E u \in Tasks \ {t} :
        /\ ctl[t] = "verify"
        /\ ctl[u] = "ret"
        /\ index[t] = 3
        /\ index[u] = 5
        /\ Len(stack[u]) = 3
        /\ request[t] # request[u]
        /\ obs[u].trace = <<1, 2, 3, 4, 5>>

---------------------------------------------------------------------------
\* C29: the rate limiter drops the timestamps older than now - windowMs and
\* keeps the others, one that is exactly windowMs old included: a request
\* that arrives when maxRequests admitted timestamps of its client are at
\* most windowMs old is rejected.
C29_ExactlyWindowOldStillCounts ==
    [][\A t \in Tasks :
        LimiterDecides(t)
        => LET key == obs'[t].limiter[1].key
               kept == SelectSeq(stored(requests, key),
                                 LAMBDA time : ~(time < now - windowMs))
           IN
           /\ Len(kept) >= maxRequests
              => obs'[t].limiter[1].verdict = "rejected"
           /\ obs'[t].limiter[1].verdict = "rejected"
              => requests'[key] = kept
    ]_vars

---------------------------------------------------------------------------
\* C30: a rejected request is not recorded: a 429 changes the sequence of
\* its client only by dropping expired timestamps and appends nothing, so the
\* requests a client sends while it is limited do not prolong its block, and
\* the client is admitted again once its admitted timestamps have left the
\* window.
C30_RejectionRecordsNothing ==
    [][\A t \in Tasks :
        LimiterDecides(t)
        => LET key == obs'[t].limiter[1].key
               before == stored(requests, key)
               after == requests'[key]
               Live(seq) == SelectSeq(seq, LAMBDA time : now - time < windowMs)
               counted == SelectSeq(stored(admitted, key),
                                    LAMBDA time : now - time <= windowMs)
           IN
           /\ obs'[t].limiter[1].verdict = "rejected"
              => (/\ Live(after) = Live(before)
                  /\ Len(after) <= Len(before)
                  /\ \A k \in 1 .. Len(after) : now - after[k] <= windowMs
                  /\ admitted' = admitted
                  /\ \A c \in DOMAIN requests \ {key} : requests'[c] = requests[c])
           /\ Len(counted) < maxRequests
              => obs'[t].limiter[1].verdict = "admitted"
    ]_vars

\* a client was rejected at its limit and, the window over, admitted again:
\* its sequence holds the new admission only
C30_Witness ==
    \E t \in Tasks : \E u \in Tasks \ {t} :
        /\ ctl[t] = "done"
        /\ response[t].status = 429
        /\ obs[u].limiter # <<>>
        /\ obs[u].limiter[1].verdict = "admitted"
        /\ obs[u].limiter[1].key = obs[t].limiter[1].key
        /\ Len(admitted[obs[u].limiter[1].key]) = maxRequests + 1
        /\ requests[obs[u].limiter[1].key] = <<now>>

---------------------------------------------------------------------------
\* C31: a request the rate limiter admits is recorded once, before next is
\* invoked, and no later step of its chain takes the timestamp away: the
\* request counts against its client also when it is then answered 401, 400
\* or 403 or when a handler behind the rate limiter raises a failure.
C31_AdmittedIsRecordedOnce ==
    [][/\ \A t \in Tasks :
            (LimiterDecides(t) /\ obs'[t].limiter[1].verdict = "admitted")
            => LET key == obs'[t].limiter[1].key
                   kept == SelectSeq(stored(requests, key),
                                     LAMBDA time : now - time < windowMs)
               IN
               /\ Len(requests'[key]) = Len(kept) + 1
               /\ SubSeq(requests'[key], 1, Len(kept)) = kept
               /\ requests'[key][Len(kept) + 1] = now'
               /\ ctl'[t] = "call"
               /\ \A p \in Positions("RateLimiting") :
                    \A q \in Range(obs'[t].trace) : q <= p
       /\ (\A t \in Tasks : ~LimiterDecides(t)) => requests' = requests
    ]_vars

\* requests that were admitted and then answered 401 and 400 are both in the
\* sequence of their client
C31_Witness ==
    \E t \in Tasks : \E u \in Tasks \ {t} :
        /\ ctl[t] = "done" /\ ctl[u] = "done"
        /\ obs[t].limiter # <<>> /\ obs[u].limiter # <<>>
        /\ obs[t].limiter[1].verdict = "admitted"
        /\ obs[u].limiter[1].verdict = "admitted"
        /\ obs[t].limiter[1].key = "unknown"
        /\ obs[u].limiter[1].key = "unknown"
        /\ response[t].status = 401
        /\ response[u].status = 400
        /\ Len(requests["unknown"]) = 2

---------------------------------------------------------------------------
\* C32: in the pipeline HTTPServer builds, the Validator, the Authorizer and
\* the terminal handler only ever run on a request that carries the identity
\* its bearer token was verified to: the Authorizer never answers 401
\* 'Authentication required', and no terminal handler runs for a request
\* whose token verifyToken does not accept.
C32_IdentityPresentBehindAuthenticator ==
    \A t \in Tasks :
        LET behind == {p \in Range(obs[t].trace) :
                          middlewares[p] \in {"Validation", "Authorization"}}
            sent == header(request[t], "authorization")
        IN
        /\ (behind # {} \/ obs[t].terminal > 0)
           => /\ sent # <<>>
              /\ ~SentWithoutBearer(request[t])
              /\ obs[t].verify > 0
              /\ verifyToken(SubSeq(sent[1], 8, Len(sent[1]))).ok
              /\ request[t].user
                    = <<verifyToken(SubSeq(sent[1], 8, Len(sent[1]))).user>>
        /\ \A k \in 1 .. Len(obs[t].short) :
              middlewares[obs[t].short[k].mw] = "Authorization"
              => obs[t].short[k].response.status # 401

\* the Validator has answered 400 for one request and the Authorizer and the
\* terminal handler have run for another, both with a verified identity
C32_Witness ==
    \E t \in Tasks : \E u \in Tasks \ {t} :
        /\ ctl[t] = "done" /\ ctl[u] = "done"
        /\ obs[t].short # <<>>
        /\ middlewares[obs[t].short[1].mw] = "Validation"
        /\ request[t].user # <<>>
        /\ \E p \in Range(obs[u].trace) : middlewares[p] = "Authorization"
        /\ obs[u].terminal = 1
        /\ request[u].user # <<>>
        /\ request[u].user[1].id = "user123"

---------------------------------------------------------------------------
\* C33: the rate limiter keeps one sequence per client key.  Deciding on a
\* request of key k leaves the sequence of every other key as it was, and the
\* verdict depends on the sequence of k alone; requests with neither an
\* attached identity nor an x-forwarded-for header all go under the key
\* 'unknown' and share its quota.
C33_OtherClientsUntouched ==
    [][\A t \in Tasks :
        LimiterDecides(t)
        => LET key == obs'[t].limiter[1].key
               own == SelectSeq(stored(requests, key),
                                LAMBDA time : now - time < windowMs)
           IN
           /\ DOMAIN requests' = DOMAIN requests \cup {key}
           /\ \A c \in DOMAIN requests \ {key} : requests'[c] = requests[c]
           /\ obs'[t].limiter[1].verdict = "rejected" <=> Len(own) >= maxRequests
           /\ (/\ request[t].user = <<>>
               /\ "x-forwarded-for" \notin DOMAIN request[t].headers)
              => key = "unknown"
           /\ "x-forwarded-for" \in DOMAIN request[t].headers
              => key # "unknown"
    ]_vars

\* two different requests without identity and forwarding header are both
\* recorded under 'unknown', next to the full window of another client
C33_Witness ==
    \E t \in Tasks : \E u \in Tasks \ {t} :
        /\ obs[t].limiter # <<>> /\ obs[u].limiter # <<>>
        /\ obs[t].limiter[1].key = "unknown"
        /\ obs[u].limiter[1].key = "unknown"
        /\ obs[t].submitted[1] # obs[u].submitted[1]
        /\ "10.0.0.1" \in DOMAIN requests
        /\ "unknown" \in DOMAIN requests
        /\ Len(requests["unknown"]) = 2
        /\ Len(requests["10.0.0.1"]) = maxRequests

---------------------------------------------------------------------------
\* C34: for a declared field the Validator reports the single error
\* '<field> is required' when the field is required and its value is
\* undefined or null; nothing when the field is optional and absent; and for
\* a present value one error for each rule it breaks among the type, the
\* minLength and the min, several errors for one field included.
BrokenRules(field, value, rules) ==
    {field \o " must be a valid email" :
        x \in (IF /\ rules.type = "email"
                   /\ ~(value.kind = "string" /\ MatchesEmail(value.v))
                THEN {1} ELSE {})}
    \cup
    {field \o " must be a string" : x \in
        (IF rules.type = "string" /\ value.kind # "string" THEN {1} ELSE {})}
    \cup
    {field \o " must be a number" : x \in
        (IF rules.type = "number" /\ value.kind # "number" THEN {1} ELSE {})}
    \cup
    {field \o " must be at least " \o ToString(rules.minLength) \o " characters" :
        x \in (IF /\ rules.minLength # 0
                   /\ value.kind = "string"
                   /\ Len(value.v) < rules.minLength
                THEN {1} ELSE {})}
    \cup
    {field \o " must be at least " \o ToString(rules.min) :
        x \in (IF rules.min # 0 /\ LessThan(value, rules.min)
                THEN {1} ELSE {})}

C34_OneErrorPerBrokenRule ==
    \A t \in Tasks :
        val[t].kind = "validated"
        => LET absent == val[t].value \in {Undefined, Null}
               expected ==
                   IF absent /\ val[t].rules.required
                   THEN {val[t].field \o " is required"}
                   ELSE IF absent
                   THEN {}
                   ELSE BrokenRules(val[t].field, val[t].value, val[t].rules)
           IN
           /\ ~val[t].thrown
           /\ Range(val[t].errors) = expected
           /\ Len(val[t].errors) = Cardinality(expected)

---------------------------------------------------------------------------
\* C35: a call of handleRequest whose token verification completes
\* eventually returns, with one response: no built-in handler leaves the
\* chain suspended, and a request that stays suspended in its verification
\* does not keep the other requests from completing.  A call whose
\* verification may hang gets as far as that verification or returns.
C35_EveryCallReturnsOnce ==
    /\ \A t \in Tasks \ {NumTasks} :
          (ctl[t] \notin {"idle", "done"})
          ~> (ctl[t] = "done" /\ IsResponse(response[t]))
    /\ (ctl[NumTasks] \notin {"idle", "done"})
       ~> (\/ ctl[NumTasks] = "done" /\ IsResponse(response[NumTasks])
           \/ ctl[NumTasks] = "verify")
    /\ [][\A t \in Tasks :
            response'[t] # response[t]
            => \/ ctl[t] # "done" /\ ctl'[t] = "done" /\ IsResponse(response'[t])
               \/ ctl[t] = "done" /\ obs'[t].trace = <<>>
          ]_vars

\* one call has returned the response of the terminal handler while the
\* verification of another is still pending
C35_Witness ==
    /\ NumTasks > 1
    /\ ctl[1] = "done"
    /\ IsResponse(response[1])
    /\ obs[1].terminal = 1
    /\ obs[1].verify = 1
    /\ ctl[NumTasks] = "verify"

---------------------------------------------------------------------------
---------------------------------------------------------------------------
\* C37: within the chain of one request the built-in handlers are strictly
\* nested.  Handler i+1 starts only after handler i, the last one started
\* and still suspended, called its continuation; a handler ends only as the
\* innermost one, so the response passes the handlers in reverse
\* registration order; and the Logger, registered first, reports the
\* completion only when every other handler of the request and the terminal
\* handler have ended.
C37_HandlersStrictlyNested ==
    [][\A t \in Tasks :
        LET depth == Len(stack[t])
            starts == /\ obs'[t].submitted = obs[t].submitted
                      /\ Len(obs'[t].trace) = Len(obs[t].trace) + 1
            reports == /\ obs'[t].submitted = obs[t].submitted
                       /\ Len(obs'[t].log) = Len(obs[t].log) + 1
                       /\ obs'[t].log[Len(obs'[t].log)].event # "Started"
        IN
        /\ \A k \in 1 .. depth : stack[t][k].mw = k
        /\ starts
           => /\ obs'[t].trace[Len(obs'[t].trace)] = depth + 1
              /\ stack'[t] = Append(stack[t], [mw |-> depth + 1, invoked |-> 0])
              /\ depth > 0
                 => /\ stack[t][depth].invoked = 1
                    /\ depth \in Range(obs[t].delegated)
                    /\ ctl[t] = "call"
        /\ Len(stack'[t]) < depth
           => /\ stack'[t] = SubSeq(stack[t], 1, depth - 1)
              /\ ctl'[t] = "ret"
              /\ val'[t] # Nothing
              /\ \A q \in Range(obs[t].trace) : q > depth => Ended(t, q)
        /\ reports
           => /\ depth = 1
              /\ middlewares[stack[t][1].mw] = "Logging"
              /\ stack'[t] = <<>>
              /\ ctl[t] = "ret"
              /\ \A q \in Range(obs[t].trace) \ {1} : Ended(t, q)
              /\ obs[t].terminal > 0 \/ obs[t].short # <<>> \/ obs[t].raised # <<>>
    ]_vars

\* the Logger has reported the completion of a request that went through all
\* five handlers and the terminal handler
C37_Witness ==
    \E t \in Tasks :
        /\ obs[t].trace = <<1, 2, 3, 4, 5>>
        /\ obs[t].terminal = 1
        /\ Len(obs[t].log) = 2
        /\ obs[t].log[2].event = "Completed"
        /\ stack[t] = <<>>

====
